---- MODULE Spec2Model ----
(***************************************************************************)
(* A model of the TCP injection detector: the per-connection state machine *)
(* of connection_state.rs with its handshake-hijack detector, the attack   *)
(* reporter of event.rs, the OrderedCoalesce store of ordered_coalesce.rs, *)
(* the demultiplexer's loop of main.rs, and the packet, flow and           *)
(* sequence-number types they are built on.                                *)
(*                                                                         *)
(* Three specifications share one initial state: Spec follows the          *)
(* Connection of one flow, SpecCoalesce one OrderedCoalesce, and SpecDemux *)
(* the map of Connections of all flows.  The operations of the types that  *)
(* have no state of their own between calls have specifications that draw  *)
(* their operands in the initial state.                                    *)
(*                                                                         *)
(* A u32 is kept at its full width.  TLC's integers stop at 2^31 - 1, so a *)
(* u32 is the pair <<hi, lo>> of its two 16-bit halves (value hi * 2^16 +  *)
(* lo) and the arithmetic of sequence.rs is carried out on the halves.     *)
(***************************************************************************)
EXTENDS Integers, Sequences, FiniteSets, TLC

VARIABLES
    connection,  \* the flow's Connection (connection_state.rs:16-26), or Vacant
    packet,      \* the packet read by tcp_packets.next() and not yet dispatched
    options,     \* the ConnectionOptions the Connection was built with
    coalesce,    \* an OrderedCoalesce (ordered_coalesce.rs:9-12)
    arriving,    \* the packet insert has been called with and has not yet handled
    outcome,     \* what the last call of insert did: its return value, or a panic
    inserted,    \* history: what the packets inserted so far have in common
    connections, \* the demultiplexer's HashMap<Flow, Connection> (main.rs:39)
    panicked,    \* main has reached the panic of SideIdentifier::identify
    received,    \* history: the packets each entry of the map has been handed, in order
    call,        \* an operation of types/ with its operands and, once applied, its result
    ring,        \* a Ring (ring.rs:10-15)
    pushed       \* history: the values pushed into the ring, in order

\* The variables of the demultiplexer's loop over one flow, those of an
\* OrderedCoalesce, those of the demultiplexer's loop over all flows, and
\* those of the operations of types/ taken one at a time.
connectionVars == <<connection, packet, options>>
coalesceVars == <<coalesce, arriving, outcome, inserted>>
demuxVars == <<connections, panicked, received>>
typesVars == <<call, ring, pushed>>

vars == <<connectionVars, coalesceVars, demuxVars, typesVars>>

(***************************************************************************)
(* Bounds of the model.                                                    *)
(***************************************************************************)
\* receive_packet is not called once packet_count has reached MaxPackets.
MaxPackets == 5
\* Sequence and acknowledgement numbers are 0 .. MaxSeqLow and 0xFFFFFFFF.
MaxSeqLow == 1
\* Payloads have at most MaxPayloadLen bytes.
MaxPayloadLen == 1
\* insert is called with sequence numbers 0 .. MaxCoalesceSeq and 0xFFFFFFFF.
MaxCoalesceSeq == 2
\* insert is called with payloads of at most MaxCoalesceLen bytes.
MaxCoalesceLen == 2
\* insert is not called once total_size has reached MaxTotalSize.
MaxTotalSize == 3
\* The demultiplexer reads at most MaxDemuxPackets packets.
MaxDemuxPackets == 4
\* The ranges compared run between the sequence numbers 0..MaxRangeSeq, two
\* in the middle and the highest.
MaxRangeSeq == 2
\* The manifests split start at 0..MaxSplitSeq or at one of the two highest
\* sequence numbers and carry at most MaxSplitLen bytes.
MaxSplitSeq == 3
MaxSplitLen == 3
\* The sequence numbers added to lie within MaxAddSeq of either end of the
\* u32 range, and the offsets added within MaxAddend of either end.
MaxAddSeq == 3
MaxAddend == 3
\* A Ring is made for at most MaxCapacity elements and pushed into at most
\* MaxPushes times.
MaxCapacity == 3
MaxPushes == 5

(***************************************************************************)
(* types/sequence.rs                                                       *)
(***************************************************************************)
\* Half of the width of Sequence(u32): 2^16.
Limb == 65536

\* `n as u32` for a usize n.
ToU32(n) == <<(n \div Limb) % Limb, n % Limb>>

\* u32::wrapping_add on halves: the carry out of the high half is dropped.
wrapping_add(a, b) ==
    LET lo == a[2] + b[2]
    IN  <<(a[1] + b[1] + (lo \div Limb)) % Limb, lo % Limb>>

\* impl Add<u32> for Sequence.
add(self, rhs) == wrapping_add(self, rhs)

\* impl Sub for Sequence, with the difference reduced modulo 2^32.
sub_modulo(self, rhs) ==
    LET d == self[2] - rhs[2]
        borrow == IF d < 0 THEN 1 ELSE 0
    IN  <<(self[1] - rhs[1] - borrow) % Limb, d + borrow * Limb>>

\* impl Sub for Sequence: the i64 difference, as <<hi, lo>> with
\* value hi * 2^16 + lo, 0 <= lo < 2^16 and hi signed.
sub(self, rhs) ==
    LET d == self[2] - rhs[2]
        borrow == IF d < 0 THEN 1 ELSE 0
    IN  <<self[1] - rhs[1] - borrow, d + borrow * Limb>>

\* The i64 value 0.
Zero64 == <<0, 0>>

\* Option<T>.
None == <<>>
Some(x) == <<x>>

(***************************************************************************)
(* types/packet.rs                                                         *)
(***************************************************************************)
\* impl From<&PacketManifest> for Flow.
FlowFrom(p) == [src |-> <<p.ip.src, p.tcp.src>>, dst |-> <<p.ip.dst, p.tcp.dst>>]

\* Flow::reverse.
reverse(flow) == [src |-> flow.dst, dst |-> flow.src]

\* SideIdentifier::from_client_flow.
from_client_flow(client_flow) ==
    [client_flow |-> client_flow, server_flow |-> reverse(client_flow)]

\* SideIdentifier::identify; "Panic" stands for panic!("Unknown packet sender").
identify(side_id, p) ==
    IF side_id.client_flow = FlowFrom(p) THEN "Client"
    ELSE IF side_id.server_flow = FlowFrom(p) THEN "Server"
    ELSE "Panic"

(***************************************************************************)
(* event.rs                                                                *)
(***************************************************************************)
\* ConsoleReporter::default() / DummyAttackReporter::new: nothing reported.
\* reports is what the reporter has emitted so far (the lines on stderr, or
\* the test reporter's vector).
NewReporter == [attack_reported |-> FALSE, reports |-> <<>>]

\* AttackReporter::is_attack_detected.
is_attack_detected(reporter) == reporter.attack_reported

\* AttackReporter::report_attack: latches, then emits the report.
report_attack(reporter, report) ==
    [attack_reported |-> TRUE, reports |-> Append(reporter.reports, report)]

(***************************************************************************)
(* connection_state.rs                                                     *)
(***************************************************************************)
\* Faulty detect_hijack: hijack_next_ack is compared with the packet's
\* sequence number instead of its acknowledgement number.
detect_hijack_by_seq(self, p) ==
    IF identify(self.side_id, p) # "Server" THEN None
    ELSE IF ~p.tcp.flags.ack \/ ~p.tcp.flags.syn THEN None
    ELSE IF p.tcp.seq # self.hijack_next_ack THEN None
    ELSE IF Some(p.tcp.seq) = self.first_syn_ack_seq THEN None
    ELSE Some([packet_count |-> self.packet_count,
               flow |-> FlowFrom(p),
               hijack_seq |-> p.tcp.seq,
               hijack_ack |-> p.tcp.ack])

\* Faulty detect_hijack: the first SYN/ACK's sequence number is not excluded.
detect_hijack_any_seq(self, p) ==
    IF identify(self.side_id, p) # "Server" THEN None
    ELSE IF ~p.tcp.flags.ack \/ ~p.tcp.flags.syn THEN None
    ELSE IF p.tcp.ack # self.hijack_next_ack THEN None
    ELSE Some([packet_count |-> self.packet_count,
               flow |-> FlowFrom(p),
               hijack_seq |-> p.tcp.seq,
               hijack_ack |-> p.tcp.ack])

\* Connection::detect_hijack.  The report's wall-clock time is left out.
detect_hijack(self, p) ==
    IF identify(self.side_id, p) # "Server" THEN None
    ELSE IF ~p.tcp.flags.ack \/ ~p.tcp.flags.syn THEN None
    ELSE IF p.tcp.ack # self.hijack_next_ack THEN None
    ELSE IF Some(p.tcp.seq) = self.first_syn_ack_seq THEN None
    ELSE Some([packet_count |-> self.packet_count,
               flow |-> FlowFrom(p),
               hijack_seq |-> p.tcp.seq,
               hijack_ack |-> p.tcp.ack])

\* Faulty from_packet: the SYN is not counted in client_next_seq.
from_packet_no_syn_slot(p, opts) ==
    LET is_initial_packet == p.tcp.flags.syn /\ ~p.tcp.flags.ack
        is_closing_packet == ~is_initial_packet /\ (p.tcp.flags.fin \/ p.tcp.flags.rst)
        client_next_seq == add(p.tcp.seq, ToU32(Len(p.tcp_payload)))
    IN  [attack_reporter |-> opts.attack_reporter,
         state |-> IF is_initial_packet THEN "ConnectionRequest"
                   ELSE IF is_closing_packet THEN "Closed"
                   ELSE "DataTransfer",
         client_next_seq |-> client_next_seq,
         server_next_seq |-> None,
         skip_hijack_detection_count |->
             IF is_initial_packet THEN opts.skip_hijack_detection_count ELSE 0,
         hijack_next_ack |-> IF is_initial_packet THEN client_next_seq ELSE ToU32(0),
         packet_count |-> 1,
         first_syn_ack_seq |-> None,
         side_id |-> from_client_flow(FlowFrom(p))]

\* Faulty from_packet: FIN or RST closes whatever SYN and ACK are.
from_packet_closing_first(p, opts) ==
    LET is_initial_packet == p.tcp.flags.syn /\ ~p.tcp.flags.ack
        is_closing_packet == p.tcp.flags.fin \/ p.tcp.flags.rst
        client_next_seq == add(add(p.tcp.seq, ToU32(1)), ToU32(Len(p.tcp_payload)))
    IN  [attack_reporter |-> opts.attack_reporter,
         state |-> IF is_closing_packet THEN "Closed"
                   ELSE IF is_initial_packet THEN "ConnectionRequest"
                   ELSE "DataTransfer",
         client_next_seq |-> client_next_seq,
         server_next_seq |-> None,
         skip_hijack_detection_count |->
             IF is_initial_packet THEN opts.skip_hijack_detection_count ELSE 0,
         hijack_next_ack |-> IF is_initial_packet THEN client_next_seq ELSE ToU32(0),
         packet_count |-> 1,
         first_syn_ack_seq |-> None,
         side_id |-> from_client_flow(FlowFrom(p))]

\* Faulty from_packet: the threshold of the options is kept whatever the
\* first packet is.
from_packet_keeping_threshold(p, opts) ==
    LET is_initial_packet == p.tcp.flags.syn /\ ~p.tcp.flags.ack
        is_closing_packet == ~is_initial_packet /\ (p.tcp.flags.fin \/ p.tcp.flags.rst)
        client_next_seq == add(add(p.tcp.seq, ToU32(1)), ToU32(Len(p.tcp_payload)))
    IN  [attack_reporter |-> opts.attack_reporter,
         state |-> IF is_initial_packet THEN "ConnectionRequest"
                   ELSE IF is_closing_packet THEN "Closed"
                   ELSE "DataTransfer",
         client_next_seq |-> client_next_seq,
         server_next_seq |-> None,
         skip_hijack_detection_count |-> opts.skip_hijack_detection_count,
         hijack_next_ack |-> IF is_initial_packet THEN client_next_seq ELSE ToU32(0),
         packet_count |-> 1,
         first_syn_ack_seq |-> None,
         side_id |-> from_client_flow(FlowFrom(p))]

\* Connection::from_packet.
from_packet(p, opts) ==
    LET is_initial_packet == p.tcp.flags.syn /\ ~p.tcp.flags.ack
        is_closing_packet == ~is_initial_packet /\ (p.tcp.flags.fin \/ p.tcp.flags.rst)
        client_next_seq == add(add(p.tcp.seq, ToU32(1)), ToU32(Len(p.tcp_payload)))
    IN  [attack_reporter |-> opts.attack_reporter,
         state |-> IF is_initial_packet THEN "ConnectionRequest"
                   ELSE IF is_closing_packet THEN "Closed"
                   ELSE "DataTransfer",
         client_next_seq |-> client_next_seq,
         server_next_seq |-> None,
         skip_hijack_detection_count |->
             IF is_initial_packet THEN opts.skip_hijack_detection_count ELSE 0,
         hijack_next_ack |-> IF is_initial_packet THEN client_next_seq ELSE ToU32(0),
         packet_count |-> 1,
         first_syn_ack_seq |-> None,
         side_id |-> from_client_flow(FlowFrom(p))]

\* Faulty state_connection_request: the SYN/ACK's own sequence slot is not
\* counted in server_next_seq.
state_connection_request_no_syn_slot(self, p) ==
    IF identify(self.side_id, p) # "Server" THEN self
    ELSE IF ~(p.tcp.flags.syn /\ p.tcp.flags.ack) THEN self
    ELSE IF sub(self.client_next_seq, p.tcp.ack) # Zero64 THEN self
    ELSE [self EXCEPT
            !.state = "ConnectionEstablished",
            !.server_next_seq = Some(add(p.tcp.seq, ToU32(Len(p.tcp_payload)))),
            !.first_syn_ack_seq = Some(p.tcp.seq)]

\* Faulty state_connection_request: the SYN/ACK's sequence number is recorded
\* before its acknowledgement number is checked.
state_connection_request_early_record(self, p) ==
    IF identify(self.side_id, p) # "Server" THEN self
    ELSE IF ~(p.tcp.flags.syn /\ p.tcp.flags.ack) THEN self
    ELSE IF sub(self.client_next_seq, p.tcp.ack) # Zero64
         THEN [self EXCEPT !.first_syn_ack_seq = Some(p.tcp.seq)]
    ELSE [self EXCEPT
            !.state = "ConnectionEstablished",
            !.server_next_seq = Some(add(p.tcp.seq, ToU32(Len(p.tcp_payload) + 1))),
            !.first_syn_ack_seq = Some(p.tcp.seq)]

\* Connection::state_connection_request.  The payload is far shorter than
\* 2^32 - 1 bytes, so `len as u32 + 1` does not overflow.
state_connection_request(self, p) ==
    IF identify(self.side_id, p) # "Server" THEN self
    ELSE IF ~(p.tcp.flags.syn /\ p.tcp.flags.ack) THEN self
    ELSE IF sub(self.client_next_seq, p.tcp.ack) # Zero64 THEN self
    ELSE [self EXCEPT
            !.state = "ConnectionEstablished",
            !.server_next_seq = Some(add(p.tcp.seq, ToU32(Len(p.tcp_payload) + 1))),
            !.first_syn_ack_seq = Some(p.tcp.seq)]

\* Faulty state_connection_established: the third leg's acknowledgement
\* number is not checked.
state_connection_established_any_ack(self, p) ==
    LET report == detect_hijack(self, p)
        reported ==
            IF ~is_attack_detected(self.attack_reporter) /\ report # None
            THEN [self EXCEPT !.attack_reporter = report_attack(@, report[1])]
            ELSE self
    IN  IF identify(self.side_id, p) # "Client" THEN reported
        ELSE IF p.tcp.flags.syn \/ ~p.tcp.flags.ack THEN reported
        ELSE IF p.tcp.seq # self.client_next_seq THEN reported
        ELSE [reported EXCEPT !.state = "DataTransfer"]

\* Faulty state_connection_established: the reporter's latch is not asked.
state_connection_established_unlatched(self, p) ==
    LET report == detect_hijack(self, p)
        reported ==
            IF report # None
            THEN [self EXCEPT !.attack_reporter = report_attack(@, report[1])]
            ELSE self
    IN  IF identify(self.side_id, p) # "Client" THEN reported
        ELSE IF p.tcp.flags.syn \/ ~p.tcp.flags.ack THEN reported
        ELSE IF p.tcp.seq # self.client_next_seq THEN reported
        ELSE IF Some(p.tcp.ack) # self.server_next_seq THEN reported
        ELSE [reported EXCEPT !.state = "DataTransfer"]

\* Faulty state_connection_established: a new SYN of the client takes the
\* Connection back to ConnectionRequest.
state_connection_established_restarting(self, p) ==
    LET report == detect_hijack(self, p)
        reported ==
            IF ~is_attack_detected(self.attack_reporter) /\ report # None
            THEN [self EXCEPT !.attack_reporter = report_attack(@, report[1])]
            ELSE self
    IN  IF identify(self.side_id, p) # "Client" THEN reported
        ELSE IF p.tcp.flags.syn /\ ~p.tcp.flags.ack
             THEN [reported EXCEPT !.state = "ConnectionRequest"]
        ELSE IF p.tcp.flags.syn \/ ~p.tcp.flags.ack THEN reported
        ELSE IF p.tcp.seq # self.client_next_seq THEN reported
        ELSE IF Some(p.tcp.ack) # self.server_next_seq THEN reported
        ELSE [reported EXCEPT !.state = "DataTransfer"]

\* Faulty state_connection_established: a later SYN/ACK of the server
\* replaces the recorded sequence number of the first.
state_connection_established_relearning(self, p) ==
    LET report == detect_hijack(self, p)
        reported ==
            IF ~is_attack_detected(self.attack_reporter) /\ report # None
            THEN [self EXCEPT !.attack_reporter = report_attack(@, report[1])]
            ELSE self
    IN  IF identify(self.side_id, p) = "Server" /\ p.tcp.flags.syn /\ p.tcp.flags.ack
        THEN [reported EXCEPT !.first_syn_ack_seq = Some(p.tcp.seq)]
        ELSE IF identify(self.side_id, p) # "Client" THEN reported
        ELSE IF p.tcp.flags.syn \/ ~p.tcp.flags.ack THEN reported
        ELSE IF p.tcp.seq # self.client_next_seq THEN reported
        ELSE IF Some(p.tcp.ack) # self.server_next_seq THEN reported
        ELSE [reported EXCEPT !.state = "DataTransfer"]

\* Connection::state_connection_established.
state_connection_established(self, p) ==
    LET report == detect_hijack(self, p)
        reported ==
            IF ~is_attack_detected(self.attack_reporter) /\ report # None
            THEN [self EXCEPT !.attack_reporter = report_attack(@, report[1])]
            ELSE self
    IN  IF identify(self.side_id, p) # "Client" THEN reported
        ELSE IF p.tcp.flags.syn \/ ~p.tcp.flags.ack THEN reported
        ELSE IF p.tcp.seq # self.client_next_seq THEN reported
        ELSE IF Some(p.tcp.ack) # self.server_next_seq THEN reported
        ELSE [reported EXCEPT !.state = "DataTransfer"]

\* Faulty state_data_transfer: the reporter's latch suppresses the detector.
state_data_transfer_latched(self, p) ==
    LET seeded ==
            IF self.server_next_seq = None /\ identify(self.side_id, p) = "Server"
            THEN [self EXCEPT !.server_next_seq = Some(p.tcp.seq)]
            ELSE self
        report == detect_hijack(seeded, p)
    IN  IF /\ ~is_attack_detected(seeded.attack_reporter)
           /\ seeded.packet_count < seeded.skip_hijack_detection_count
           /\ report # None
        THEN [seeded EXCEPT !.attack_reporter = report_attack(@, report[1])]
        ELSE seeded

\* Faulty state_data_transfer: the detector still runs at the threshold.
state_data_transfer_inclusive(self, p) ==
    LET seeded ==
            IF self.server_next_seq = None /\ identify(self.side_id, p) = "Server"
            THEN [self EXCEPT !.server_next_seq = Some(p.tcp.seq)]
            ELSE self
        report == detect_hijack(seeded, p)
    IN  IF seeded.packet_count <= seeded.skip_hijack_detection_count /\ report # None
        THEN [seeded EXCEPT !.attack_reporter = report_attack(@, report[1])]
        ELSE seeded

\* Connection::state_data_transfer.
state_data_transfer(self, p) ==
    LET seeded ==
            IF self.server_next_seq = None /\ identify(self.side_id, p) = "Server"
            THEN [self EXCEPT !.server_next_seq = Some(p.tcp.seq)]
            ELSE self
        report == detect_hijack(seeded, p)
    IN  IF seeded.packet_count < seeded.skip_hijack_detection_count /\ report # None
        THEN [seeded EXCEPT !.attack_reporter = report_attack(@, report[1])]
        ELSE seeded

\* Connection::state_connection_closing and Connection::state_closed: empty.
state_connection_closing(self, p) == self
state_closed(self, p) == self

\* Connection::receive_packet.
receive_packet(self, p) ==
    LET counted == [self EXCEPT !.packet_count = @ + 1]
    IN  CASE counted.state = "ConnectionRequest" -> state_connection_request(counted, p)
          [] counted.state = "ConnectionEstablished" -> state_connection_established(counted, p)
          [] counted.state = "DataTransfer" -> state_data_transfer(counted, p)
          [] counted.state = "ConnectionClosing" -> state_connection_closing(counted, p)
          [] counted.state = "Closed" -> state_closed(counted, p)
          [] counted.state = "Invalid" -> counted

(***************************************************************************)
(* main.rs: the demultiplexer's view of one flow                           *)
(***************************************************************************)
\* The derived Ord of (IpAddr, u16) and of Flow: lexicographic.
EndpointLess(a, b) == a[1] < b[1] \/ (a[1] = b[1] /\ a[2] < b[2])
FlowLess(f, g) == EndpointLess(f.src, g.src) \/ (f.src = g.src /\ EndpointLess(f.dst, g.dst))

\* A key that keeps only the lower of the two endpoints.
CanonicalFlow_lower_endpoint(flow) ==
    IF EndpointLess(flow.dst, flow.src)
    THEN [src |-> flow.dst, dst |-> flow.dst]
    ELSE [src |-> flow.src, dst |-> flow.src]

\* cmp::min(flow, flow.reverse()): the key of the demultiplexer's map.
CanonicalFlow(flow) == IF FlowLess(reverse(flow), flow) THEN reverse(flow) ELSE flow

\* The skip_hijack_detection_count the demultiplexer passes.
DefaultSkipCount == 1000

(***************************************************************************)
(* types/sequence.rs: SequenceRange                                        *)
(***************************************************************************)
\* #[derive(Ord)] on Sequence(u32): the order of the u32 values.
SeqLess(a, b) == a[1] < b[1] \/ (a[1] = b[1] /\ a[2] < b[2])
SeqLeq(a, b) == a = b \/ SeqLess(a, b)

\* cmp::max and cmp::min on Sequence.
max(a, b) == IF SeqLeq(a, b) THEN b ELSE a
min(a, b) == IF SeqLeq(a, b) THEN a ELSE b

\* impl PartialEq for SequenceRange, with ranges that only touch unequal.
eq_open(self, other) == SeqLess(other.from, self.to) /\ SeqLess(self.from, other.to)

\* impl PartialEq for SequenceRange: two ranges are equal when they intersect.
eq(self, other) == SeqLeq(other.from, self.to) /\ SeqLeq(self.from, other.to)

\* impl Ord for SequenceRange.
cmp_from_only(self, other) ==
    IF SeqLess(self.from, other.from) THEN "Less"
    ELSE IF SeqLess(other.from, self.from) THEN "Greater"
    ELSE "Equal"

cmp(self, other) ==
    IF SeqLess(self.to, other.from) THEN "Less"
    ELSE IF SeqLess(other.to, self.from) THEN "Greater"
    ELSE "Equal"

\* impl PartialOrd for SequenceRange, and the operators < and > that the
\* trait derives from partial_cmp.
partial_cmp(self, other) == Some(cmp(self, other))
lt(self, other) == partial_cmp(self, other) = Some("Less")
gt(self, other) == partial_cmp(self, other) = Some("Greater")

(***************************************************************************)
(* types/packet.rs: PacketManifest::split_off and Payload::sub_payload     *)
(***************************************************************************)
\* usize::try_from(i64): Err (None) below zero.  A value of 2^16 or more is
\* kept as 2^16: it is only compared with payload lengths and slice
\* bounds, all of which are below 2^16 here.
try_from(d) == IF d[1] < 0 THEN None ELSE Some(IF d[1] = 0 THEN d[2] ELSE Limb)

\* The outcome of a call that reached panic!().
Panicked == [panic |-> TRUE]

\* PacketManifest::split_off, with the returned manifest keeping the
\* receiver's sequence number.
split_off_keeping_seq(self, seq_no) ==
    LET ind == try_from(sub(seq_no, self.tcp.seq))
        len == Len(self.tcp_payload)
    IN  IF ind = None \/ ind[1] > len
        THEN Panicked
        ELSE [panic |-> FALSE,
              self |-> [self EXCEPT !.tcp_payload = SubSeq(self.tcp_payload, 1, ind[1])],
              ret |-> [self EXCEPT !.tcp_payload = SubSeq(self.tcp_payload, ind[1] + 1, len)]]

\* PacketManifest::split_off: `self` is the receiver after the call,
\* `ret` the returned manifest.
split_off(self, seq_no) ==
    LET ind == try_from(sub(seq_no, self.tcp.seq))
        len == Len(self.tcp_payload)
    IN  IF ind = None \/ ind[1] > len
        THEN Panicked
        ELSE [panic |-> FALSE,
              self |-> [self EXCEPT !.tcp_payload = SubSeq(self.tcp_payload, 1, ind[1])],
              ret |-> [self EXCEPT !.tcp.seq = seq_no,
                                   !.tcp_payload = SubSeq(self.tcp_payload, ind[1] + 1, len)]]

\* Payload::sub_payload: &self[start..=end], which panics unless
\* start <= end + 1 and end < self.len().
sub_payload(self, range, relatively_to) ==
    LET start == try_from(sub(range.from, relatively_to))
        end == try_from(sub(range.to, relatively_to))
    IN  IF start = None \/ end = None
        THEN Panicked
        ELSE IF start[1] > end[1] + 1 \/ end[1] >= Len(self)
        THEN Panicked
        ELSE [panic |-> FALSE, ret |-> SubSeq(self, start[1] + 1, end[1] + 1)]

(***************************************************************************)
(* types/ordered_coalesce.rs                                               *)
(*                                                                         *)
(* The BTreeMap<SequenceRange, PacketManifest> is the sequence of its      *)
(* entries in stored order.  A lookup walks the keys of a node from the    *)
(* left and stops at the first one the sought key is not Greater than; it  *)
(* is Found when they compare Equal.  The model holds fewer entries than a *)
(* node (11), so the map is a single leaf.                                 *)
(***************************************************************************)
\* The position at which the search for `key` stops.
RECURSIVE find_key_index(_, _, _)
find_key_index(collection, key, i) ==
    IF i > Len(collection) THEN [found |-> FALSE, idx |-> i]
    ELSE LET c == cmp(key, collection[i].key)
         IN  IF c = "Greater" THEN find_key_index(collection, key, i + 1)
             ELSE [found |-> c = "Equal", idx |-> i]

\* BTreeMap::insert: an occupied entry keeps its key and takes the value.
btree_insert(collection, key, value) ==
    LET at == find_key_index(collection, key, 1)
    IN  IF at.found
        THEN [collection EXCEPT ![at.idx].value = value]
        ELSE SubSeq(collection, 1, at.idx - 1) \o <<[key |-> key, value |-> value]>>
             \o SubSeq(collection, at.idx, Len(collection))

\* OrderedCoalesce::construct_overlap_blocks_enabled.
construct_overlap_blocks_enabled == TRUE

\* The second component of what overlap_check returns.
returned_blocks(overlaping_blocks) ==
    IF construct_overlap_blocks_enabled THEN Some(overlaping_blocks) ELSE None

\* The loop of overlap_check over self.collection.range(range..), from
\* entry i on.
RECURSIVE overlap_check_loop(_, _, _, _, _, _)
overlap_check_loop(collection, i, range, payload, not_overlapping, overlaping_blocks) ==
    LET done == [panic |-> FALSE, not_overlapping |-> not_overlapping,
                 overlaping_blocks |-> returned_blocks(overlaping_blocks)]
    IN
    IF i > Len(collection) THEN done
    ELSE
    LET overlapping_range == collection[i].key
        overlapping_package == collection[i].value
    IN
    IF ~eq(overlapping_range, range) THEN done
    ELSE
    LET overlap == [from |-> max(overlapping_range.from, range.from),
                    to |-> min(overlapping_range.to, range.to)]
        looser == sub_payload(payload, overlap, range.from)
        winner == sub_payload(overlapping_package.tcp_payload, overlap,
                              overlapping_package.tcp.seq)
    IN
    IF construct_overlap_blocks_enabled /\ (looser.panic \/ winner.panic) THEN Panicked
    ELSE
    LET blocks == IF construct_overlap_blocks_enabled /\ winner.ret # looser.ret
                  THEN Append(overlaping_blocks,
                              [winner |-> winner.ret, loser |-> looser.ret, range |-> overlap])
                  ELSE overlaping_blocks
    IN
    IF Len(not_overlapping) = 0 THEN Panicked
    ELSE
    LET popped == not_overlapping[Len(not_overlapping)]
        rest == SubSeq(not_overlapping, 1, Len(not_overlapping) - 1)
        left == IF SeqLeq(popped.from, overlapping_range.from)
                THEN Append(rest, [from |-> popped.from, to |-> overlapping_range.from])
                ELSE rest
    IN
    IF SeqLeq(overlapping_range.to, popped.to)
    THEN overlap_check_loop(collection, i + 1, range, payload,
                            Append(left, [from |-> overlapping_range.to, to |-> popped.to]),
                            blocks)
    ELSE [panic |-> FALSE, not_overlapping |-> left,
          overlaping_blocks |-> returned_blocks(blocks)]

\* OrderedCoalesce::overlap_check.
overlap_check(self, range, payload) ==
    overlap_check_loop(self.collection, find_key_index(self.collection, range, 1).idx,
                       range, payload, <<range>>, <<>>)

\* OrderedCoalesce::split_packet_into_sub_packets: the scan over `ranges`
\* from position i on, p being what is left of the arriving packet.
RECURSIVE split_packet_scan(_, _, _, _)
split_packet_scan(p, ranges, i, acc) ==
    IF i > Len(ranges) THEN [panic |-> FALSE, ret |-> acc]
    ELSE
    LET first == split_off(p, ranges[i].from)
    IN
    IF first.panic THEN Panicked
    ELSE
    LET second == split_off(first.ret, add(ranges[i].to, ToU32(1)))
    IN
    IF second.panic THEN Panicked
    ELSE split_packet_scan(second.ret, ranges, i + 1,
                           Append(acc, [key |-> ranges[i], value |-> second.self]))

split_packet_into_sub_packets(p, ranges) == split_packet_scan(p, ranges, 1, <<>>)

\* `(range.to - range.from) as u64`.  No range with to < from is stored
\* (RangesStoredInOrder), so the difference is not negative.
as_u64(d) == d[1] * Limb + d[2]

\* The loop of insert that stores the sub-packets from position i on.
RECURSIVE store_sub_packets(_, _, _)
store_sub_packets(self, sub_packets, i) ==
    IF i > Len(sub_packets) THEN self
    ELSE store_sub_packets(
             [collection |-> btree_insert(self.collection, sub_packets[i].key, sub_packets[i].value),
              total_size |-> self.total_size
                             + as_u64(sub(sub_packets[i].key.to, sub_packets[i].key.from))],
             sub_packets, i + 1)

\* insert storing a packet without payload under its sequence number.
insert_storing_empty(self, p) ==
    IF Len(p.tcp_payload) = 0
    THEN [panic |-> FALSE,
          self |-> [self EXCEPT !.collection =
                        btree_insert(self.collection, [from |-> p.tcp.seq, to |-> p.tcp.seq], p)],
          ret |-> Some(<<>>), not_overlapping |-> <<>>]
    ELSE
    LET range == [from |-> p.tcp.seq,
                  to |-> add(p.tcp.seq, ToU32(Len(p.tcp_payload) - 1))]
        checked == overlap_check(self, range, p.tcp_payload)
    IN
    IF checked.panic THEN Panicked
    ELSE
    LET not_overlapping_packets == split_packet_into_sub_packets(p, checked.not_overlapping)
    IN
    IF not_overlapping_packets.panic THEN Panicked
    ELSE [panic |-> FALSE,
          self |-> store_sub_packets(self, not_overlapping_packets.ret, 1),
          ret |-> checked.overlaping_blocks,
          not_overlapping |-> checked.not_overlapping]

\* OrderedCoalesce::insert: `self` is the store after the call, `ret` the
\* returned Option<Vec<OverlapBlock>>; `not_overlapping` is what
\* overlap_check returned.
insert(self, p) ==
    IF Len(p.tcp_payload) = 0
    THEN [panic |-> FALSE, self |-> self,
          ret |-> IF construct_overlap_blocks_enabled THEN Some(<<>>) ELSE None,
          not_overlapping |-> <<>>]
    ELSE
    LET range == [from |-> p.tcp.seq,
                  to |-> add(p.tcp.seq, ToU32(Len(p.tcp_payload) - 1))]
        checked == overlap_check(self, range, p.tcp_payload)
    IN
    IF checked.panic THEN Panicked
    ELSE
    LET not_overlapping_packets == split_packet_into_sub_packets(p, checked.not_overlapping)
    IN
    IF not_overlapping_packets.panic THEN Panicked
    ELSE [panic |-> FALSE,
          self |-> store_sub_packets(self, not_overlapping_packets.ret, 1),
          ret |-> checked.overlaping_blocks,
          not_overlapping |-> checked.not_overlapping]

(***************************************************************************)
(* The inputs                                                              *)
(***************************************************************************)
\* The two endpoints of the observed conversation, as (IpAddr, u16).
Endpoints == {<<1, 1>>, <<2, 2>>}

\* Sequence and acknowledgement numbers: the low values and 0xFFFFFFFF.
SeqValues == {ToU32(n) : n \in 0..MaxSeqLow} \cup {<<Limb - 1, Limb - 1>>}

TcpFlagsValues == [syn : BOOLEAN, ack : BOOLEAN, fin : BOOLEAN, rst : BOOLEAN]

Payloads == {[i \in 1..n |-> 0] : n \in 0..MaxPayloadLen}

\* The two directions of the conversation.
Flows == {fl \in [src : Endpoints, dst : Endpoints] : fl.src # fl.dst}

Packets ==
    {[ip |-> [src |-> fl.src[1], dst |-> fl.dst[1]],
      tcp |-> [src |-> fl.src[2], dst |-> fl.dst[2], ack |-> a, seq |-> q, flags |-> f],
      tcp_payload |-> pl] :
        fl \in Flows, a \in SeqValues, q \in SeqValues,
        f \in TcpFlagsValues, pl \in Payloads}

\* The packets read after the first.  receive_packet and its handlers read
\* neither FIN nor RST, so these are drawn with both clear.
LaterPackets == {p \in Packets : ~p.tcp.flags.fin /\ ~p.tcp.flags.rst}

\* The thresholds a Connection is built with: one the packet counter
\* reaches within MaxPackets packets, and the demultiplexer's.
SkipCounts == {MaxPackets, DefaultSkipCount}

ConnectionOptionsValues ==
    {[attack_reporter |-> NewReporter, skip_hijack_detection_count |-> k] : k \in SkipCounts}

(***************************************************************************)
(* The inputs of OrderedCoalesce                                           *)
(***************************************************************************)
\* The values of a payload byte.
ByteValues == {0, 1}

\* The payloads handed to insert: at most MaxCoalesceLen bytes.
CoalescePayloads ==
    UNION {[1..n -> ByteValues] : n \in 0..MaxCoalesceLen}

\* The sequence numbers handed to insert: the low ones and 0xFFFFFFFF.
CoalesceSeqs == {ToU32(n) : n \in 0..MaxCoalesceSeq} \cup {<<Limb - 1, Limb - 1>>}

\* tests::tcp_packet(seq_no, payload).
tcp_packet(seq_no, payload) ==
    [ip |-> [src |-> 1, dst |-> 2],
     tcp |-> [src |-> 1011, dst |-> 2022, ack |-> ToU32(1), seq |-> seq_no,
              flags |-> [syn |-> FALSE, ack |-> TRUE, fin |-> FALSE, rst |-> FALSE]],
     tcp_payload |-> payload]

CoalescePackets == {tcp_packet(q, pl) : q \in CoalesceSeqs, pl \in CoalescePayloads}

(***************************************************************************)
(* The state machine of one OrderedCoalesce: a caller hands it a packet    *)
(* (Arrive) and insert runs on it (Insert).  A panic ends the run.         *)
(***************************************************************************)
\* OrderedCoalesce::new().
new == [total_size |-> 0, collection |-> <<>>]

\* No call of insert has been made yet, or one is about to be.
NoOutcome == [panic |-> FALSE, ret |-> None, not_overlapping |-> <<>>]

\* The sequence range of a packet with a payload, as insert builds it.
RangeOf(p) ==
    [from |-> p.tcp.seq, to |-> add(p.tcp.seq, ToU32(Len(p.tcp_payload) - 1))]

\* The byte stream the packets are cut from: the byte at sequence number s.
Stream(s) == s[2] % 2

\* Every byte of p is the stream's byte at its sequence number.
AgreesWithStream(p) ==
    \A j \in 1..Len(p.tcp_payload) :
        p.tcp_payload[j] = Stream(add(p.tcp.seq, ToU32(j - 1)))

\* The history before any insert.
NothingInserted == [agree |-> TRUE, disjoint |-> TRUE, ranges |-> {}]

\* The history after insert(p): whether every packet so far agreed with
\* the stream, and the ranges of the packets so far while they are
\* pairwise disjoint (no longer kept once two of them have intersected).
Record(h, p) ==
    IF Len(p.tcp_payload) = 0 THEN h
    ELSE LET d == h.disjoint /\ \A r \in h.ranges : ~eq(r, RangeOf(p))
         IN  [agree |-> h.agree /\ AgreesWithStream(p),
              disjoint |-> d,
              ranges |-> IF d THEN h.ranges \cup {RangeOf(p)} ELSE {}]

(***************************************************************************)
(* The inputs of the demultiplexer over several flows                      *)
(***************************************************************************)
\* Three endpoints, two of them on one address.
DemuxEndpoints == {<<1, 1>>, <<1, 2>>, <<2, 1>>}

\* Every flow between them, those from an endpoint to itself included.
DemuxFlows == [src : DemuxEndpoints, dst : DemuxEndpoints]

\* The segments of a handshake, by (flags, seq, ack): the client's SYN, the
\* server's SYN+ACK, a second SYN+ACK with another sequence number, the
\* client's ACK, and an RST.
DemuxSegments ==
    {[flags |-> [syn |-> TRUE, ack |-> FALSE, fin |-> FALSE, rst |-> FALSE],
      seq |-> ToU32(0), ack |-> ToU32(0)],
     [flags |-> [syn |-> TRUE, ack |-> TRUE, fin |-> FALSE, rst |-> FALSE],
      seq |-> ToU32(0), ack |-> ToU32(1)],
     [flags |-> [syn |-> TRUE, ack |-> TRUE, fin |-> FALSE, rst |-> FALSE],
      seq |-> ToU32(1), ack |-> ToU32(1)],
     [flags |-> [syn |-> FALSE, ack |-> TRUE, fin |-> FALSE, rst |-> FALSE],
      seq |-> ToU32(1), ack |-> ToU32(1)],
     [flags |-> [syn |-> FALSE, ack |-> FALSE, fin |-> FALSE, rst |-> TRUE],
      seq |-> ToU32(0), ack |-> ToU32(0)]}

DemuxPackets ==
    {[ip |-> [src |-> fl.src[1], dst |-> fl.dst[1]],
      tcp |-> [src |-> fl.src[2], dst |-> fl.dst[2], ack |-> sg.ack, seq |-> sg.seq,
               flags |-> sg.flags],
      tcp_payload |-> <<>>] : fl \in DemuxFlows, sg \in DemuxSegments}

\* The ConnectionOptions the demultiplexer builds every Connection with.
DemuxOptions == [attack_reporter |-> NewReporter, skip_hijack_detection_count |-> DefaultSkipCount]

\* HashMap::new().
NoConnections == <<>>

(***************************************************************************)
(* The state machine: the demultiplexer's loop over one flow.  Each turn   *)
(* of the loop reads a packet (Capture) and hands it to the flow's entry   *)
(* of the map, which consumes it (FromPacket or ReceivePacket).            *)
(***************************************************************************)
\* Entry::Vacant: no packet of the flow has been seen.
Vacant == [state |-> "Vacant", packet_count |-> 0]
\* No packet is waiting to be dispatched.
NoPacket == [tcp_payload |-> <<>>]
\* No Connection has been built yet.
NoOptions == [skip_hijack_detection_count |-> 0]

\* No operation of types/ is under way, and no Ring has been made.
NoCall == [op |-> "none"]
NoRing == [buffer |-> <<>>]

Idle ==
    /\ connection = Vacant
    /\ packet = NoPacket
    /\ options = NoOptions
    /\ coalesce = new
    /\ arriving = NoPacket
    /\ outcome = NoOutcome
    /\ inserted = NothingInserted
    /\ connections = NoConnections
    /\ panicked = FALSE
    /\ received = NoConnections

Init ==
    /\ Idle
    /\ call = NoCall
    /\ ring = NoRing
    /\ pushed = <<>>

\* tcp_packets.next() returns Packet::Tcp(p).
Capture(p) ==
    /\ packet = NoPacket
    /\ connection.packet_count < MaxPackets
    /\ connection # Vacant => p \in LaterPackets
    /\ packet' = p
    /\ UNCHANGED <<connection, options>>
    /\ UNCHANGED <<coalesceVars, demuxVars, typesVars>>

\* Entry::Vacant: the first packet of the flow builds the Connection.
FromPacket(opts) ==
    /\ packet # NoPacket
    /\ connection = Vacant
    /\ connection' = from_packet(packet, opts)
    /\ options' = opts
    /\ packet' = NoPacket
    /\ UNCHANGED <<coalesceVars, demuxVars, typesVars>>

\* Entry::Occupied: a later packet with the same canonical flow is received.
ReceivePacket ==
    /\ packet # NoPacket
    /\ connection # Vacant
    /\ CanonicalFlow(FlowFrom(packet)) = CanonicalFlow(connection.side_id.client_flow)
    /\ connection' = receive_packet(connection, packet)
    /\ packet' = NoPacket
    /\ UNCHANGED options
    /\ UNCHANGED <<coalesceVars, demuxVars, typesVars>>

Next ==
    \/ \E p \in Packets : Capture(p)
    \/ \E opts \in ConnectionOptionsValues : FromPacket(opts)
    \/ ReceivePacket

Spec == Init /\ [][Next]_vars

\* insert is called with p.
Arrive(p) ==
    /\ arriving = NoPacket
    /\ ~outcome.panic
    /\ coalesce.total_size < MaxTotalSize
    /\ arriving' = p
    /\ outcome' = NoOutcome
    /\ UNCHANGED <<coalesce, inserted>>
    /\ UNCHANGED <<connectionVars, demuxVars, typesVars>>

Insert ==
    /\ arriving # NoPacket
    /\ LET r == insert(coalesce, arriving)
       IN  /\ coalesce' = IF r.panic THEN coalesce ELSE r.self
           /\ outcome' = IF r.panic THEN Panicked
                         ELSE [panic |-> FALSE, ret |-> r.ret,
                               not_overlapping |-> r.not_overlapping]
    /\ inserted' = Record(inserted, arriving)
    /\ arriving' = NoPacket
    /\ UNCHANGED <<connectionVars, demuxVars, typesVars>>

NextCoalesce ==
    \/ \E p \in CoalescePackets : Arrive(p)
    \/ Insert

SpecCoalesce == Init /\ [][NextCoalesce]_vars

(***************************************************************************)
(* The state machine of the demultiplexer over all flows: each turn of the *)
(* loop of main reads a packet (DemuxCapture) and hands it to the entry of *)
(* its canonical flow (DemuxVacant or DemuxOccupied).  A panic ends the    *)
(* run.                                                                    *)
(***************************************************************************)
\* The key of the pending packet in the map.
KeyOf(p) == CanonicalFlow(FlowFrom(p))

\* The packets read so far.
RECURSIVE PacketsRead(_)
PacketsRead(conns) ==
    IF DOMAIN conns = {} THEN 0
    ELSE LET k == CHOOSE k \in DOMAIN conns : TRUE
         IN  conns[k].packet_count + PacketsRead([j \in DOMAIN conns \ {k} |-> conns[j]])

\* receive_packet reaches a call of identify that panics.
receive_packet_panics(self, p) ==
    /\ identify(self.side_id, p) = "Panic"
    /\ CASE self.state = "ConnectionRequest" -> TRUE
         [] self.state = "ConnectionEstablished" -> TRUE
         [] self.state = "DataTransfer" ->
                \/ self.server_next_seq = None
                \/ self.packet_count + 1 < self.skip_hijack_detection_count
         [] OTHER -> FALSE

\* tcp_packets.next() returns Packet::Tcp(p).
DemuxCapture(p) ==
    /\ packet = NoPacket
    /\ ~panicked
    /\ PacketsRead(connections) < MaxDemuxPackets
    /\ packet' = p
    /\ UNCHANGED <<connection, options, connections, panicked, received>>
    /\ UNCHANGED <<coalesceVars, typesVars>>

\* Entry::Vacant: the Connection is built from the packet and inserted.
DemuxVacant ==
    /\ packet # NoPacket
    /\ KeyOf(packet) \notin DOMAIN connections
    /\ connections' = [k \in DOMAIN connections \cup {KeyOf(packet)} |->
                          IF k = KeyOf(packet) THEN from_packet(packet, DemuxOptions)
                          ELSE connections[k]]
    /\ received' = [k \in DOMAIN received \cup {KeyOf(packet)} |->
                       IF k = KeyOf(packet) THEN <<packet>> ELSE received[k]]
    /\ packet' = NoPacket
    /\ UNCHANGED <<connection, options, panicked>>
    /\ UNCHANGED <<coalesceVars, typesVars>>

\* Entry::Occupied, with the packet handed to every Connection of the map.
DemuxOccupied_every_connection ==
    /\ packet # NoPacket
    /\ KeyOf(packet) \in DOMAIN connections
    /\ panicked' = FALSE
    /\ connections' = [k \in DOMAIN connections |->
                          IF receive_packet_panics(connections[k], packet)
                          THEN connections[k]
                          ELSE receive_packet(connections[k], packet)]
    /\ received' = [received EXCEPT ![KeyOf(packet)] = Append(@, packet)]
    /\ packet' = NoPacket
    /\ UNCHANGED <<connection, options>>
    /\ UNCHANGED <<coalesceVars, typesVars>>

\* Entry::Occupied: the Connection under the key receives the packet.
DemuxOccupied ==
    /\ packet # NoPacket
    /\ KeyOf(packet) \in DOMAIN connections
    /\ LET self == connections[KeyOf(packet)]
       IN  IF receive_packet_panics(self, packet)
           THEN /\ panicked' = TRUE
                /\ connections' = [connections EXCEPT
                                      ![KeyOf(packet)].packet_count = @ + 1]
           ELSE /\ panicked' = FALSE
                /\ connections' = [connections EXCEPT
                                      ![KeyOf(packet)] = receive_packet(self, packet)]
    /\ received' = [received EXCEPT ![KeyOf(packet)] = Append(@, packet)]
    /\ packet' = NoPacket
    /\ UNCHANGED <<connection, options>>
    /\ UNCHANGED <<coalesceVars, typesVars>>

NextDemux ==
    \/ \E p \in DemuxPackets : DemuxCapture(p)
    \/ DemuxVacant
    \/ DemuxOccupied

SpecDemux == Init /\ [][NextDemux]_vars

(***************************************************************************)
(* The state machine: two SequenceRanges are compared.                     *)
(***************************************************************************)
\* Sequence numbers at both ends of the u32 range and on both sides of the
\* boundary between the halves.
RangeSeqs ==
    {ToU32(n) : n \in 0..MaxRangeSeq}
        \cup {<<0, Limb - 1>>, <<1, 0>>, <<Limb - 1, Limb - 1>>}

\* The SequenceRanges with from <= to.
Ranges == {r \in [from : RangeSeqs, to : RangeSeqs] : SeqLeq(r.from, r.to)}

InitRange ==
    /\ Idle
    /\ call \in [op : {"operands"}, self : Ranges, other : Ranges]
    /\ ring = NoRing
    /\ pushed = <<>>

\* self == other, self < other, self > other, self.cmp(other) and
\* other.cmp(self) are evaluated.
Compare ==
    /\ call.op = "operands"
    /\ call' = [op |-> "compare", self |-> call.self, other |-> call.other,
                eq |-> eq(call.self, call.other),
                lt |-> lt(call.self, call.other),
                gt |-> gt(call.self, call.other),
                cmp |-> cmp(call.self, call.other),
                reversed |-> cmp(call.other, call.self)]
    /\ UNCHANGED <<connectionVars, coalesceVars, demuxVars, ring, pushed>>

NextRange == Compare

SpecRange == InitRange /\ [][NextRange]_vars

(***************************************************************************)
(* The state machine: a PacketManifest is split.                           *)
(***************************************************************************)
\* Sequence numbers of the manifest and of the split: the low ones and the
\* two highest.
SplitSeqs ==
    {ToU32(n) : n \in 0..MaxSplitSeq}
        \cup {<<Limb - 1, Limb - 2>>, <<Limb - 1, Limb - 1>>}

SplitPayloads == UNION {[1..n -> ByteValues] : n \in 0..MaxSplitLen}

\* Manifests of the two directions of a flow.
SplitManifests ==
    {[tcp_packet(q, pl) EXCEPT !.ip = ip] :
        q \in SplitSeqs, pl \in SplitPayloads,
        ip \in {[src |-> 1, dst |-> 2], [src |-> 2, dst |-> 1]}}

InitSplit ==
    /\ Idle
    /\ call \in [op : {"operands"}, self : SplitManifests, seq_no : SplitSeqs]
    /\ ring = NoRing
    /\ pushed = <<>>

\* self.split_off(seq_no) is called.
SplitOff ==
    /\ call.op = "operands"
    /\ call' = [op |-> "split_off", self |-> call.self, seq_no |-> call.seq_no,
                result |-> split_off(call.self, call.seq_no)]
    /\ UNCHANGED <<connectionVars, coalesceVars, demuxVars, ring, pushed>>

NextSplit == SplitOff

SpecSplit == InitSplit /\ [][NextSplit]_vars

(***************************************************************************)
(* The state machine: an offset is added to a Sequence, and the Sequence   *)
(* is subtracted from the sum.                                             *)
(***************************************************************************)
AddSeqs ==
    {ToU32(n) : n \in 0..MaxAddSeq}
        \cup {<<0, Limb - 1>>, <<1, 0>>}
        \cup {<<Limb - 1, Limb - n>> : n \in 1..MaxAddSeq}

Addends ==
    {ToU32(n) : n \in 0..MaxAddend}
        \cup {<<Limb - 1, Limb - n>> : n \in 1..MaxAddend}

InitSequence ==
    /\ Idle
    /\ call \in [op : {"operands"}, self : AddSeqs, rhs : Addends]
    /\ ring = NoRing
    /\ pushed = <<>>

\* self + rhs.
Add ==
    /\ call.op = "operands"
    /\ call' = [op |-> "add", self |-> call.self, rhs |-> call.rhs,
                sum |-> add(call.self, call.rhs)]
    /\ UNCHANGED <<connectionVars, coalesceVars, demuxVars, ring, pushed>>

\* (self + rhs) - self.
Sub ==
    /\ call.op = "add"
    /\ call' = [op |-> "sub", self |-> call.self, rhs |-> call.rhs,
                sum |-> call.sum, difference |-> sub(call.sum, call.self)]
    /\ UNCHANGED <<connectionVars, coalesceVars, demuxVars, ring, pushed>>

NextSequence ==
    \/ Add
    \/ Sub

SpecSequence == InitSequence /\ [][NextSequence]_vars

(***************************************************************************)
(* types/ring.rs.  The Vec is its elements and the capacity it was made    *)
(* with; indices count from 0 as in the source.                            *)
(***************************************************************************)
\* Vec::with_capacity(capacity) for an element type that is zero-sized or
\* not.
with_capacity(capacity, zero_sized) ==
    [elements |-> <<>>, capacity |-> capacity, zero_sized |-> zero_sized]

\* self.buffer.len() == self.buffer.capacity().  The capacity of a Vec of a
\* zero-sized type is usize::MAX whatever capacity it was made with, a
\* length no Vec here reaches; that of any other Vec is the capacity it was
\* made with.
len_is_capacity(buffer) ==
    ~buffer.zero_sized /\ Len(buffer.elements) = buffer.capacity

\* Ring::new(capacity), for capacity # 0.
new_ring(capacity, zero_sized) ==
    [buffer |-> with_capacity(capacity, zero_sized), oldest_ind |-> None]

\* Ring::push.
push(self, value) ==
    IF self.oldest_ind # None
    THEN LET i == self.oldest_ind[1]
         IN  [self EXCEPT !.buffer.elements[i + 1] = value,
                          !.oldest_ind = IF i + 1 = Len(self.buffer.elements)
                                         THEN Some(0) ELSE Some(i + 1)]
    ELSE LET pushed_to == [self.buffer EXCEPT !.elements = Append(@, value)]
         IN  [buffer |-> pushed_to,
              oldest_ind |-> IF len_is_capacity(pushed_to) THEN Some(0) ELSE None]

\* Ring::iter, as the sequence RingIter yields: right_side, then left_side.
iter(self) ==
    IF self.oldest_ind = None \/ self.oldest_ind = Some(0)
    THEN self.buffer.elements
    ELSE LET n == self.oldest_ind[1]
         IN  SubSeq(self.buffer.elements, n + 1, Len(self.buffer.elements))
                 \o SubSeq(self.buffer.elements, 1, n)

\* Ring::first.
first(self) ==
    IF self.oldest_ind # None
    THEN Some(self.buffer.elements[self.oldest_ind[1] + 1])
    ELSE IF self.buffer.elements = <<>> THEN None
         ELSE Some(self.buffer.elements[1])

(***************************************************************************)
(* The state machine of one Ring<T>: it is made in the initial state and   *)
(* pushed into.  T is u8 or the zero-sized ().                             *)
(***************************************************************************)
\* The values of T.
Unit == "()"
RingValues(zero_sized) == IF zero_sized THEN {Unit} ELSE ByteValues

InitRing ==
    /\ Idle
    /\ call = NoCall
    /\ ring \in {new_ring(capacity, zero_sized) :
                    capacity \in 1..MaxCapacity, zero_sized \in BOOLEAN}
    /\ pushed = <<>>

\* ring.push(value).
Push(value) ==
    /\ Len(pushed) < MaxPushes
    /\ ring' = push(ring, value)
    /\ pushed' = Append(pushed, value)
    /\ UNCHANGED <<connectionVars, coalesceVars, demuxVars, call>>

NextRing == \E value \in RingValues(ring.buffer.zero_sized) : Push(value)

SpecRing == InitRing /\ [][NextRing]_vars

(***************************************************************************)
(* Properties.  A step that changes `connection` consumes the pending      *)
(* `packet`: the unprimed packet is the one handled, connection is the     *)
(* Connection before the call and connection' the Connection after it.     *)
(***************************************************************************)
\* The successor of a u32 and s + n modulo 2^32, by counting.
Succ32(s) ==
    IF s[2] < Limb - 1 THEN <<s[1], s[2] + 1>>
    ELSE IF s[1] < Limb - 1 THEN <<s[1] + 1, 0>>
    ELSE <<0, 0>>

RECURSIVE Plus32(_, _)
Plus32(s, n) == IF n = 0 THEN s ELSE Plus32(Succ32(s), n - 1)

\* receive_packet is being called on the pending packet.
Receiving == packet # NoPacket /\ connection # Vacant

\* from_packet is being called on the pending packet.
Constructing == packet # NoPacket /\ connection = Vacant

FromServer(c, p) == FlowFrom(p) = reverse(c.side_id.client_flow)
FromClient(c, p) == FlowFrom(p) = c.side_id.client_flow

\* The reports emitted so far.
Reports(c) == c.attack_reporter.reports
Latched(c) == c.attack_reporter.attack_reported

\* The call emits exactly one more report, and it describes packet p.
EmitsReportOf(c, d, p) ==
    /\ Len(Reports(d)) = Len(Reports(c)) + 1
    /\ SubSeq(Reports(d), 1, Len(Reports(c))) = Reports(c)
    /\ Reports(d)[Len(Reports(d))].flow = FlowFrom(p)
    /\ Reports(d)[Len(Reports(d))].hijack_seq = p.tcp.seq
    /\ Reports(d)[Len(Reports(d))].hijack_ack = p.tcp.ack

\* The injected SYN/ACK: from the server, SYN and ACK set, acknowledging
\* hijack_next_ack, with another sequence number than the first SYN/ACK.
InjectedSynAck(c, p) ==
    /\ FromServer(c, p)
    /\ p.tcp.flags.syn
    /\ p.tcp.flags.ack
    /\ p.tcp.ack = c.hijack_next_ack
    /\ Some(p.tcp.seq) # c.first_syn_ack_seq

\* C1: in ConnectionEstablished with the reporter not latched, receive_packet
\* emits a HandshakeHijack report iff the packet is from the server, has SYN
\* and ACK set, acknowledges hijack_next_ack (the client_next_seq seeded at
\* construction) and its sequence number differs from first_syn_ack_seq; the
\* report carries the packet's flow, sequence and acknowledgement numbers.
C1_EstablishedReportsInjectedSynAck ==
    [][(Receiving /\ connection.state = "ConnectionEstablished" /\ ~Latched(connection))
        => /\ connection.hijack_next_ack = connection.client_next_seq
           /\ InjectedSynAck(connection, packet)
                => EmitsReportOf(connection, connection', packet) /\ Latched(connection')
           /\ ~InjectedSynAck(connection, packet)
                => connection'.attack_reporter = connection.attack_reporter]_vars

\* A Connection still in ConnectionEstablished has reported one injected SYN/ACK.
C1_Witness ==
    /\ connection.state = "ConnectionEstablished"
    /\ packet = NoPacket
    /\ Len(Reports(connection)) = 1
    /\ Reports(connection)[1].flow = connection.side_id.server_flow
    /\ Reports(connection)[1].hijack_ack = connection.hijack_next_ack
    /\ Some(Reports(connection)[1].hijack_seq) # connection.first_syn_ack_seq

\* C2: in ConnectionRequest, a server-side SYN+ACK acknowledging
\* client_next_seq moves the state to ConnectionEstablished, sets
\* server_next_seq to seq + payload length + 1 modulo 2^32 and
\* first_syn_ack_seq to the packet's seq.
C2_SynAckEstablishes ==
    [][(/\ Receiving
        /\ connection.state = "ConnectionRequest"
        /\ FromServer(connection, packet)
        /\ packet.tcp.flags.syn
        /\ packet.tcp.flags.ack
        /\ packet.tcp.ack = connection.client_next_seq)
        => /\ connection'.state = "ConnectionEstablished"
           /\ connection'.server_next_seq =
                  Some(Plus32(packet.tcp.seq, Len(packet.tcp_payload) + 1))
           /\ connection'.first_syn_ack_seq = Some(packet.tcp.seq)]_vars

\* The SYN/ACK had sequence number 0xFFFFFFFF and no payload: server_next_seq
\* wrapped to 0.
C2_Witness ==
    /\ connection.state = "ConnectionEstablished"
    /\ connection.packet_count = 2
    /\ connection.first_syn_ack_seq = Some(<<Limb - 1, Limb - 1>>)
    /\ connection.server_next_seq = Some(<<0, 0>>)

\* The third leg of the handshake: a pure ACK from the client with the
\* expected sequence and acknowledgement numbers.
ThirdLeg(c, p) ==
    /\ FromClient(c, p)
    /\ p.tcp.flags.ack
    /\ ~p.tcp.flags.syn
    /\ p.tcp.seq = c.client_next_seq
    /\ Some(p.tcp.ack) = c.server_next_seq

\* C3: in ConnectionEstablished, receive_packet moves the state to
\* DataTransfer iff the packet is from the client, has ACK set and SYN clear,
\* seq = client_next_seq and ack = server_next_seq; otherwise the state
\* stays, and client_next_seq, server_next_seq and first_syn_ack_seq are
\* unchanged.
C3_EstablishedToDataTransfer ==
    [][(Receiving /\ connection.state = "ConnectionEstablished")
        => /\ ThirdLeg(connection, packet) => connection'.state = "DataTransfer"
           /\ ~ThirdLeg(connection, packet) => connection'.state = "ConnectionEstablished"
           /\ connection'.client_next_seq = connection.client_next_seq
           /\ connection'.server_next_seq = connection.server_next_seq
           /\ connection'.first_syn_ack_seq = connection.first_syn_ack_seq]_vars

\* The handshake has completed: DataTransfer was entered from
\* ConnectionEstablished by the third packet.
C3_Witness ==
    /\ connection.state = "DataTransfer"
    /\ connection.packet_count = 3
    /\ connection.first_syn_ack_seq # None
    /\ packet = NoPacket

\* C4, as stated: once the reporter has latched, no call of receive_packet
\* emits a further report, in any state.
C4_NoReportOnceLatched ==
    [][(Receiving /\ Latched(connection))
        => Reports(connection') = Reports(connection)]_vars

\* C4, amended: once the reporter has latched, a packet received in any
\* state but DataTransfer emits no report.
C4_NoReportOnceLatchedOutsideDataTransfer ==
    [][(Receiving /\ Latched(connection) /\ connection.state # "DataTransfer")
        => Reports(connection') = Reports(connection)]_vars

\* A latched Connection in ConnectionEstablished has received further
\* packets after the one it reported, and still holds that single report.
C4_Witness ==
    /\ connection.state = "ConnectionEstablished"
    /\ packet = NoPacket
    /\ Latched(connection)
    /\ Len(Reports(connection)) = 1
    /\ connection.packet_count >= Reports(connection)[1].packet_count + 2

\* C5: after a first report and the move to DataTransfer, a further
\* server-side SYN+ACK that meets the hijack conditions, received while
\* packet_count (counting that packet) is below the threshold, is reported
\* again, although the reporter has latched: two reports in total.
C5_SecondReportInDataTransfer ==
    [][(/\ Receiving
        /\ connection.state = "DataTransfer"
        /\ connection.first_syn_ack_seq # None
        /\ Latched(connection)
        /\ Len(Reports(connection)) = 1
        /\ InjectedSynAck(connection, packet)
        /\ connection.packet_count + 1 < connection.skip_hijack_detection_count)
        => /\ EmitsReportOf(connection, connection', packet)
           /\ Len(Reports(connection')) = 2]_vars

\* The first report was emitted in ConnectionEstablished (third packet), the
\* second in DataTransfer.
C5_Witness ==
    /\ connection.state = "DataTransfer"
    /\ packet = NoPacket
    /\ Len(Reports(connection)) = 2
    /\ Reports(connection)[1].packet_count = 3
    /\ Reports(connection)[2].packet_count = 5
    /\ connection.first_syn_ack_seq # None

\* C6: in DataTransfer a packet is reported only while packet_count, after
\* the increment for that packet, is strictly below
\* skip_hijack_detection_count; the counter only grows and the threshold
\* and the state stay, so once the threshold is reached no packet is
\* reported any more.
C6_DetectorArmedBelowThreshold ==
    [][(Receiving /\ connection.state = "DataTransfer")
        => /\ connection'.packet_count = connection.packet_count + 1
           /\ connection'.skip_hijack_detection_count = connection.skip_hijack_detection_count
           /\ connection'.state = "DataTransfer"
           /\ connection'.packet_count >= connection.skip_hijack_detection_count
                => Reports(connection') = Reports(connection)
           /\ (/\ connection'.packet_count < connection.skip_hijack_detection_count
               /\ InjectedSynAck(connection, packet))
                => EmitsReportOf(connection, connection', packet)]_vars

\* A Connection that completed the handshake and reported in DataTransfer
\* below the threshold has now reached the threshold.
C6_Witness ==
    /\ connection.state = "DataTransfer"
    /\ packet = NoPacket
    /\ connection.skip_hijack_detection_count > 0
    /\ connection.packet_count = connection.skip_hijack_detection_count
    /\ Len(Reports(connection)) >= 1
    /\ Reports(connection)[Len(Reports(connection))].packet_count = connection.packet_count - 1

\* The SYN/ACK ConnectionRequest waits for.
ExpectedSynAck(c, p) ==
    /\ FromServer(c, p)
    /\ p.tcp.flags.syn
    /\ p.tcp.flags.ack
    /\ p.tcp.ack = c.client_next_seq

\* C7: in ConnectionRequest, a packet that is not a server-side SYN+ACK
\* acknowledging client_next_seq changes packet_count and nothing else: the
\* state, the sequence fields and hijack_next_ack stay and nothing is
\* reported.
C7_HandshakeAnomalyDropped ==
    [][(/\ Receiving
        /\ connection.state = "ConnectionRequest"
        /\ ~ExpectedSynAck(connection, packet))
        => connection' = [connection EXCEPT !.packet_count = @ + 1]]_vars

\* A Connection still in ConnectionRequest after it dropped packets.
C7_Witness ==
    /\ connection.state = "ConnectionRequest"
    /\ packet = NoPacket
    /\ connection.packet_count = 3
    /\ connection.server_next_seq = None
    /\ connection.first_syn_ack_seq = None
    /\ Reports(connection) = <<>>

\* C8, as stated: from_packet on a SYN without ACK yields ConnectionRequest
\* with client_next_seq = seq + payload length, hijack_next_ack =
\* client_next_seq and the threshold of the options.
C8_FromSynAsStated ==
    [][(Constructing /\ packet.tcp.flags.syn /\ ~packet.tcp.flags.ack)
        => /\ connection'.state = "ConnectionRequest"
           /\ connection'.client_next_seq = Plus32(packet.tcp.seq, Len(packet.tcp_payload))
           /\ connection'.hijack_next_ack = connection'.client_next_seq
           /\ connection'.skip_hijack_detection_count = options'.skip_hijack_detection_count]_vars

\* C8, amended: client_next_seq = seq + 1 + payload length modulo 2^32 (the
\* SYN takes a sequence number); the rest as stated.
C8_FromSyn ==
    [][(Constructing /\ packet.tcp.flags.syn /\ ~packet.tcp.flags.ack)
        => /\ connection'.state = "ConnectionRequest"
           /\ connection'.client_next_seq = Plus32(packet.tcp.seq, 1 + Len(packet.tcp_payload))
           /\ connection'.hijack_next_ack = connection'.client_next_seq
           /\ connection'.skip_hijack_detection_count = options'.skip_hijack_detection_count
           /\ connection'.packet_count = 1]_vars

\* A Connection just built from a SYN with sequence number 0xFFFFFFFF and a
\* one-byte payload: client_next_seq wrapped to 1.
C8_Witness ==
    /\ connection.state = "ConnectionRequest"
    /\ connection.packet_count = 1
    /\ connection.client_next_seq = <<0, 1>>
    /\ connection.hijack_next_ack = <<0, 1>>
    /\ connection.skip_hijack_detection_count = options.skip_hijack_detection_count
    /\ options.skip_hijack_detection_count = DefaultSkipCount

\* C9: from_packet puts the Connection in exactly one initial state:
\* ConnectionRequest iff SYN is set and ACK clear, whatever FIN and RST are;
\* otherwise Closed iff FIN or RST is set; otherwise DataTransfer, and then
\* hijack_next_ack and the threshold are 0.
C9_InitialState ==
    [][Constructing
        => LET f == packet.tcp.flags
               initial == f.syn /\ ~f.ack
               closing == f.fin \/ f.rst
           IN  /\ connection'.state =
                      IF initial THEN "ConnectionRequest"
                      ELSE IF closing THEN "Closed"
                      ELSE "DataTransfer"
               /\ connection'.state = "DataTransfer"
                    => /\ connection'.hijack_next_ack = <<0, 0>>
                       /\ connection'.skip_hijack_detection_count = 0]_vars

\* A Connection just built in DataTransfer from a packet that is neither a
\* pure SYN nor a FIN or RST, although the options asked for a threshold.
C9_Witness ==
    /\ connection.state = "DataTransfer"
    /\ connection.packet_count = 1
    /\ connection.hijack_next_ack = <<0, 0>>
    /\ connection.skip_hijack_detection_count = 0
    /\ options.skip_hijack_detection_count = DefaultSkipCount

\* The four conditions with hijack_next_ack compared to the sequence number.
InjectedSynAckBySeq(c, p) ==
    /\ FromServer(c, p)
    /\ p.tcp.flags.syn
    /\ p.tcp.flags.ack
    /\ p.tcp.seq = c.hijack_next_ack
    /\ Some(p.tcp.seq) # c.first_syn_ack_seq

\* C10, as stated: a packet is reported only if its sequence number equals
\* hijack_next_ack (and it is a server-side SYN+ACK whose sequence number
\* differs from first_syn_ack_seq), and every packet received in a
\* non-Closed state that meets the four conditions is reported.
C10_ReportsAsStated ==
    [][Receiving
        => /\ Reports(connection') # Reports(connection)
                => InjectedSynAckBySeq(connection, packet)
           /\ (connection.state # "Closed" /\ InjectedSynAckBySeq(connection, packet))
                => Reports(connection') # Reports(connection)]_vars

\* The detector is consulted: in ConnectionEstablished while the reporter
\* has not latched, in DataTransfer while the incremented packet_count is
\* below the threshold.
DetectorArmed(c) ==
    \/ c.state = "ConnectionEstablished" /\ ~Latched(c)
    \/ c.state = "DataTransfer" /\ c.packet_count + 1 < c.skip_hijack_detection_count

\* C10, amended: a packet is reported only if its acknowledgement number
\* equals hijack_next_ack (and it is a server-side SYN+ACK whose sequence
\* number differs from first_syn_ack_seq), and every such packet is reported
\* when received in ConnectionEstablished with the reporter not latched or
\* in DataTransfer with the incremented packet_count below the threshold.
C10_Reports ==
    [][Receiving
        => /\ Reports(connection') # Reports(connection)
                => InjectedSynAck(connection, packet) /\ DetectorArmed(connection)
           /\ (DetectorArmed(connection) /\ InjectedSynAck(connection, packet))
                => EmitsReportOf(connection, connection', packet)]_vars

\* A report whose sequence number is not hijack_next_ack, and that equals
\* neither first_syn_ack_seq; its acknowledgement number is hijack_next_ack.
C10_Witness ==
    /\ connection.state \in {"ConnectionEstablished", "DataTransfer"}
    /\ packet = NoPacket
    /\ Len(Reports(connection)) >= 1
    /\ Reports(connection)[1].hijack_seq # connection.hijack_next_ack
    /\ Reports(connection)[1].hijack_ack = connection.hijack_next_ack
    /\ Some(Reports(connection)[1].hijack_seq) # connection.first_syn_ack_seq

(***************************************************************************)
(* Properties of OrderedCoalesce.  A step that clears `arriving` is one    *)
(* call of insert: `coalesce` and `arriving` are the store and the packet  *)
(* it was called with, `coalesce'` the store it leaves and `outcome'` what *)
(* it returned.                                                            *)
(***************************************************************************)
\* insert is called with a packet, and with one that has a payload.
Inserting == arriving # NoPacket
InsertingPayload == Inserting /\ Len(arriving.tcp_payload) > 0

\* The sequence numbers a packet's payload occupies, counted from its seq.
SeqsOf(p) == {Plus32(p.tcp.seq, j - 1) : j \in 1..Len(p.tcp_payload)}

\* Every sequence number a packet handed to insert can occupy.
SeqSpace == UNION {SeqsOf(p) : p \in CoalescePackets}

\* The sequence numbers from r.from to r.to, both included, counted
\* modulo 2^32 when r.to is below r.from.
Covers(r, s) ==
    IF SeqLeq(r.from, r.to)
    THEN SeqLeq(r.from, s) /\ SeqLeq(s, r.to)
    ELSE SeqLeq(r.from, s) \/ SeqLeq(s, r.to)
Covered(r) == {s \in SeqSpace : Covers(r, s)}

\* The byte a packet carries for sequence number s, or Absent.
Absent == "absent"
ByteAt(p, s) ==
    IF s \in SeqsOf(p)
    THEN p.tcp_payload[CHOOSE j \in 1..Len(p.tcp_payload) : Plus32(p.tcp.seq, j - 1) = s]
    ELSE Absent

\* The bytes a packet carries for the sequence numbers from.. to.
RECURSIVE BytesOn(_, _, _)
BytesOn(p, from, to) ==
    IF from = to THEN <<ByteAt(p, from)>>
    ELSE <<ByteAt(p, from)>> \o BytesOn(p, Succ32(from), to)

\* The stored entries whose key shares a sequence number with the packet.
Overlapped(c, p) ==
    SelectSeq(c.collection, LAMBDA e : Covered(e.key) \cap SeqsOf(p) # {})

\* The OverlapBlock an overlapped entry calls for, and whether its bytes
\* differ from the packet's.
BlockOf(e, p) ==
    LET from == IF SeqLess(e.key.from, p.tcp.seq) THEN p.tcp.seq ELSE e.key.from
        last == Plus32(p.tcp.seq, Len(p.tcp_payload) - 1)
        to == IF SeqLess(last, e.key.to) THEN last ELSE e.key.to
    IN  [winner |-> BytesOn(e.value, from, to), loser |-> BytesOn(p, from, to),
         range |-> [from |-> from, to |-> to]]

RECURSIVE ExpectedBlocks(_, _)
ExpectedBlocks(entries, p) ==
    IF entries = <<>> THEN <<>>
    ELSE LET b == BlockOf(Head(entries), p)
         IN  (IF b.winner # b.loser THEN <<b>> ELSE <<>>) \o ExpectedBlocks(Tail(entries), p)

\* C11: insert of a packet whose range overlaps stored keys returns one
\* OverlapBlock for each overlapped key whose stored bytes differ from the
\* packet's on the intersection, in ascending key order, with the stored
\* bytes as winner, the packet's as loser and the intersection as range.
C11_OverlapBlocksAsStated ==
    [][(InsertingPayload /\ Overlapped(coalesce, arriving) # <<>>)
        => /\ ~outcome'.panic
           /\ outcome'.ret = Some(ExpectedBlocks(Overlapped(coalesce, arriving), arriving))]_vars

\* What insert returns when it returns.
BlocksWhenReturned ==
    [][(InsertingPayload /\ Overlapped(coalesce, arriving) # <<>> /\ ~outcome'.panic)
        => outcome'.ret = Some(ExpectedBlocks(Overlapped(coalesce, arriving), arriving))]_vars

\* Every packet inserted so far, and the arriving one, agree with the stream.
InsertingAgreeing == Inserting /\ inserted.agree /\ AgreesWithStream(arriving)

\* C12: while every inserted packet agrees with one byte stream, every
\* insert returns an empty list of OverlapBlocks, overlapping or not.
C12_AgreeingPacketsAsStated ==
    [][InsertingAgreeing => (~outcome'.panic /\ outcome'.ret = Some(<<>>))]_vars

\* What insert returns for agreeing packets when it returns.
AgreeingWhenReturned ==
    [][(InsertingAgreeing /\ ~outcome'.panic) => outcome'.ret = Some(<<>>)]_vars

\* The keys of a store, in stored order.
Keys(c) == [i \in 1..Len(c.collection) |-> c.collection[i].key]

\* Each key ends before the next one starts.
Ascending(keys) ==
    \A i \in 1..Len(keys) - 1 : SeqLess(keys[i].to, keys[i + 1].from)

\* The store holds one key per range of `ranges`, equal to it, in ascending order.
HoldsExactly(c, ranges) ==
    /\ Ascending(Keys(c))
    /\ {Keys(c)[i] : i \in 1..Len(c.collection)} = ranges
    /\ Len(c.collection) = Cardinality(ranges)

\* C13: while the ranges of the inserted packets are pairwise disjoint,
\* every insert returns an empty list of OverlapBlocks and the store holds
\* one key per inserted packet, equal to its range, in ascending order.
C13_DisjointInsertsAsStated ==
    [][(Inserting /\ inserted'.disjoint)
        => /\ ~outcome'.panic
           /\ outcome'.ret = Some(<<>>)
           /\ HoldsExactly(coalesce', inserted'.ranges)]_vars

\* The last sequence number, 2^32 - 1.
LastSeq == <<Limb - 1, Limb - 1>>

\* The packet's range neither reaches 2^32 - 1 nor wraps past it.
EndsBelowLastSeq(p) ==
    Len(p.tcp_payload) > 0
        => SeqLeq(RangeOf(p).from, RangeOf(p).to) /\ SeqLess(RangeOf(p).to, LastSeq)

\* What insert does with disjoint ranges that end below 2^32 - 1.
DisjointBelowLastSeq ==
    [][(Inserting /\ inserted'.disjoint /\ EndsBelowLastSeq(arriving))
        => /\ ~outcome'.panic
           /\ outcome'.ret = Some(<<>>)
           /\ HoldsExactly(coalesce', inserted'.ranges)]_vars

\* C14: after any sequence of inserts no two stored keys intersect: of any
\* two of them, one ends before the other starts.
C14_NoTwoKeysIntersect ==
    \A i, j \in 1..Len(coalesce.collection) :
        i # j => \/ SeqLess(Keys(coalesce)[i].to, Keys(coalesce)[j].from)
                 \/ SeqLess(Keys(coalesce)[j].to, Keys(coalesce)[i].from)

\* insert has just stored a sub-packet whose range runs into a key that
\* was already stored, and the store holds several keys.
C14_Witness ==
    /\ Len(coalesce.collection) >= 2
    /\ ~outcome.panic
    /\ \E n \in 1..Len(outcome.not_overlapping) :
           \E i \in 1..Len(coalesce.collection) :
               /\ eq(Keys(coalesce)[i], outcome.not_overlapping[n])
               /\ Covered(Keys(coalesce)[i]) # Covered(outcome.not_overlapping[n])

\* The stored packet covers exactly the sequence numbers of its key.
ValueMatchesKey(e) ==
    /\ e.value.tcp.seq = e.key.from
    /\ Len(e.value.tcp_payload) > 0
    /\ Plus32(e.key.from, Len(e.value.tcp_payload) - 1) = e.key.to

\* C15: after any sequence of inserts every entry's value has the seq of
\* its key's `from` and a payload of to - from + 1 bytes.
C15_ValuesMatchKeysAsStated ==
    \A i \in 1..Len(coalesce.collection) : ValueMatchesKey(coalesce.collection[i])

\* The sum of to - from + 1 over the entries from position i on.
RECURSIVE SumOfSizes(_, _)
SumOfSizes(collection, i) ==
    IF i > Len(collection) THEN 0
    ELSE Cardinality(Covered(collection[i].key)) + SumOfSizes(collection, i + 1)

\* C16: after any sequence of inserts total_size is the sum of
\* to - from + 1 over the stored keys.
C16_TotalSizeAsStated ==
    coalesce.total_size = SumOfSizes(coalesce.collection, 1)

\* What overlap_check returns for the packet insert has been called with.
Checked == overlap_check(coalesce, RangeOf(arriving), arriving.tcp_payload)

\* The sequence numbers of the arriving packet that no stored key covers.
Uncovered(c, p) ==
    SeqsOf(p) \ UNION {Covered(Keys(c)[i]) : i \in 1..Len(c.collection)}

\* The remainders are pairwise disjoint, inside the arriving range, clear
\* of every stored key, and cover the uncovered sequence numbers exactly.
RemaindersExact(c, p, remainders) ==
    /\ \A m, n \in 1..Len(remainders) :
           m # n => Covered(remainders[m]) \cap Covered(remainders[n]) = {}
    /\ \A n \in 1..Len(remainders) :
           /\ Covered(remainders[n]) \subseteq SeqsOf(p)
           /\ \A i \in 1..Len(c.collection) :
                  Covered(remainders[n]) \cap Covered(Keys(c)[i]) = {}
    /\ UNION {Covered(remainders[n]) : n \in 1..Len(remainders)} = Uncovered(c, p)

\* C17: for every store and every arriving packet with a payload, the
\* remainder ranges of overlap_check are pairwise disjoint, lie inside the
\* arriving range, intersect no stored key and cover exactly the arriving
\* sequence numbers that no stored key covers.
C17_RemaindersAsStated ==
    InsertingPayload
        => /\ ~Checked.panic
           /\ RemaindersExact(coalesce, arriving, Checked.not_overlapping)

\* Every range insert stores has from <= to.
RangesStoredInOrder ==
    [][(Inserting /\ ~outcome'.panic)
        => \A n \in 1..Len(outcome'.not_overlapping) :
               SeqLeq(outcome'.not_overlapping[n].from, outcome'.not_overlapping[n].to)]_vars

\* The packet's range does not wrap past 2^32: its last sequence number
\* is not below its first.
NotWrapping(p) ==
    Len(p.tcp_payload) > 0 => SeqLeq(RangeOf(p).from, RangeOf(p).to)

\* A packet whose range wraps past 2^32 makes insert panic, which ends the
\* run: an insert is only ever preceded by packets that do not wrap.
WrappingPanics ==
    [][(Inserting /\ ~NotWrapping(arriving)) => outcome'.panic]_vars

\* C18: no sequence of insert calls with packets whose ranges do not wrap
\* past 2^32 makes insert panic.
C18_InsertNeverPanicsAsStated ==
    [][(Inserting /\ NotWrapping(arriving)) => ~outcome'.panic]_vars

\* insert does not panic on a packet that overlaps nothing stored and
\* ends below 2^32 - 1.
NoPanicWithoutOverlap ==
    [][(Inserting /\ EndsBelowLastSeq(arriving) /\ Overlapped(coalesce, arriving) = <<>>)
        => ~outcome'.panic]_vars

\* insert is called with a packet that has no payload.
InsertingEmpty == Inserting /\ Len(arriving.tcp_payload) = 0

\* C19: insert of a packet with an empty payload returns an empty list of
\* OverlapBlocks and leaves the collection and total_size as they were.
C19_EmptyPayloadIsNoOp ==
    [][InsertingEmpty
        => /\ ~outcome'.panic
           /\ outcome'.ret = Some(<<>>)
           /\ coalesce' = coalesce]_vars

\* insert is called with an empty packet on a store that holds several
\* packets, and returns an empty list leaving the store as it is.
C19_Witness ==
    /\ InsertingEmpty
    /\ Len(coalesce.collection) >= 2
    /\ coalesce.total_size > 0
    /\ insert(coalesce, arriving).ret = Some(<<>>)
    /\ insert(coalesce, arriving).self = coalesce

(***************************************************************************)
(* Properties of the demultiplexer over all flows.  A step that clears     *)
(* `packet` is one turn of the loop of main.                               *)
(***************************************************************************)
\* The pending packet goes to a Connection that is already in the map.
Dispatching == packet # NoPacket /\ KeyOf(packet) \in DOMAIN connections

\* C20: both directions of a conversation have the same canonical key,
\* every packet dispatched to an existing Connection has the flow of that
\* Connection's first packet or its reverse, and identify never reaches
\* its panic.
C20_DispatchedPacketsBelong ==
    [][/\ packet # NoPacket
          => CanonicalFlow(reverse(FlowFrom(packet))) = CanonicalFlow(FlowFrom(packet))
       /\ Dispatching
          => /\ FlowFrom(packet) \in
                    {connections[KeyOf(packet)].side_id.client_flow,
                     reverse(connections[KeyOf(packet)].side_id.client_flow)}
             /\ identify(connections[KeyOf(packet)].side_id, packet) # "Panic"
       /\ ~panicked']_vars

\* Two Connections are in the map, and one of them, still waiting for the
\* SYN+ACK, is handed a packet that travels against its first packet.
C20_Witness ==
    /\ Dispatching
    /\ Cardinality(DOMAIN connections) >= 2
    /\ connections[KeyOf(packet)].state = "ConnectionRequest"
    /\ FlowFrom(packet) = reverse(connections[KeyOf(packet)].side_id.client_flow)
    /\ FlowFrom(packet) # connections[KeyOf(packet)].side_id.client_flow
    /\ identify(connections[KeyOf(packet)].side_id, packet) = "Server"

\* The Connection that receives the packets ps, and no others, in order:
\* from_packet on the first, receive_packet on each of the rest.
RECURSIVE ReplayFrom(_, _, _)
ReplayFrom(self, ps, i) ==
    IF i > Len(ps) THEN self
    ELSE ReplayFrom(receive_packet(self, ps[i]), ps, i + 1)

Replay(ps) == ReplayFrom(from_packet(ps[1], DemuxOptions), ps, 2)

\* C21: handling a packet changes only the Connection under the packet's
\* canonical key, or creates it; every other Connection is unchanged, and
\* after any interleaving each Connection is in the state, with the
\* reports, that its own packets alone in the same order lead to.
C21_OnlyTheKeyedConnectionChanges ==
    [][packet # NoPacket
          => /\ DOMAIN connections' = DOMAIN connections \cup {KeyOf(packet)}
             /\ \A k \in DOMAIN connections \ {KeyOf(packet)} :
                    connections'[k] = connections[k]
             /\ DOMAIN received' = DOMAIN connections'
             /\ \A k \in DOMAIN connections' :
                    connections'[k] = Replay(received'[k])]_vars

\* Two Connections are in the map, and one of them has reported a hijack.
C21_Witness ==
    \E k1, k2 \in DOMAIN connections :
        /\ k1 # k2
        /\ connections[k1].attack_reporter.reports # <<>>
        /\ connections[k1].packet_count = 3
        /\ connections[k2].packet_count = 1

(***************************************************************************)
(* Properties of the ordering of SequenceRange.                            *)
(***************************************************************************)
Compared == call.op = "compare"

\* Ordering::reverse.
Reverse(ordering) ==
    CASE ordering = "Less" -> "Greater"
      [] ordering = "Greater" -> "Less"
      [] OTHER -> "Equal"

\* C22: for ranges a and b with from <= to, a == b exactly when
\* a.from <= b.to and b.from <= a.to, a < b exactly when a.to < b.from,
\* exactly one of a < b, a == b, a > b holds, and cmp(a, b) is the reverse
\* of cmp(b, a).
C22_IntersectionIsEquality ==
    Compared =>
        /\ call.eq <=> (SeqLeq(call.self.from, call.other.to)
                          /\ SeqLeq(call.other.from, call.self.to))
        /\ call.lt <=> SeqLess(call.self.to, call.other.from)
        /\ Cardinality({x \in {"lt", "eq", "gt"} : call[x]}) = 1
        /\ call.cmp = Reverse(call.reversed)

\* Two ranges of more than one sequence number that only touch, as [0, 3]
\* and [3, 5] do, have been compared and found equal.
C22_Witness ==
    /\ Compared
    /\ SeqLess(call.self.from, call.self.to)
    /\ call.self.to = call.other.from
    /\ SeqLess(call.other.from, call.other.to)
    /\ call.eq
    /\ call.cmp = "Equal"

(***************************************************************************)
(* Properties of PacketManifest::split_off.                                *)
(***************************************************************************)
Split == call.op = "split_off"

\* s + n does not wrap, and seq_no is s + d.
SplitsAt(d) ==
    LET s == call.self.tcp.seq
        n == Len(call.self.tcp_payload)
    IN  /\ d \in 0..n
        /\ SeqLeq(s, Plus32(s, n))
        /\ call.seq_no = Plus32(s, d)

\* C23: for a manifest with sequence number s and n payload bytes and
\* every k with s <= k <= s + n, without wrap, split_off(k) leaves the
\* receiver with seq s and the first k - s bytes and returns a manifest
\* with seq k and the other bytes whose IP layer and other TCP fields are
\* the receiver's; the two payloads concatenated are the original payload.
C23_SplitOffPartitionsThePayload ==
    Split =>
        \A d \in 0..Len(call.self.tcp_payload) :
            SplitsAt(d) =>
                LET M == call.self
                    n == Len(M.tcp_payload)
                    r == call.result
                IN  /\ ~r.panic
                    /\ r.self.tcp.seq = M.tcp.seq
                    /\ r.self.tcp_payload = [i \in 1..d |-> M.tcp_payload[i]]
                    /\ r.ret.tcp.seq = call.seq_no
                    /\ r.ret.tcp_payload = [i \in 1..(n - d) |-> M.tcp_payload[d + i]]
                    /\ r.ret.ip = M.ip
                    /\ [r.ret.tcp EXCEPT !.seq = M.tcp.seq] = M.tcp
                    /\ r.self.tcp_payload \o r.ret.tcp_payload = M.tcp_payload

\* A manifest whose sequence number is not 0 has been split inside its
\* payload at a byte where the two parts differ.
C23_Witness ==
    /\ Split
    /\ \E d \in 1..(Len(call.self.tcp_payload) - 1) : SplitsAt(d)
    /\ call.self.tcp.seq # ToU32(0)
    /\ ~call.result.panic
    /\ call.result.self.tcp_payload # call.result.ret.tcp_payload
    /\ Len(call.result.ret.tcp_payload) = 2

(***************************************************************************)
(* Properties of the arithmetic of Sequence.                               *)
(***************************************************************************)
Added == call.op \in {"add", "sub"}
Subtracted == call.op = "sub"

\* s + k is 2^32 or more: the sum of the high halves and the carry of the
\* low halves reaches 2^16.
Wraps(s, k) == s[1] + k[1] + ((s[2] + k[2]) \div Limb) >= Limb

\* sum is s + k modulo 2^32, by counting: k steps up from s reach sum
\* when k is small, and 2^32 - k steps up from sum reach s when k is large.
SumModulo(s, k, sum) ==
    IF k[1] = 0 THEN sum = Plus32(s, k[2])
    ELSE Plus32(sum, Limb - k[2]) = s

\* C24: addition wraps modulo 2^32, so that 0xFFFFFFFF + 1 is 0, and
\* subtraction is the signed 64-bit difference, not reduced modulo 2^32:
\* (s + k) - s is k when s + k < 2^32 and k - 2^32 when the sum wrapped.
C24_AddWrapsSubDoesNot ==
    /\ Added => SumModulo(call.self, call.rhs, call.sum)
    /\ Added /\ call.self = <<Limb - 1, Limb - 1>> /\ call.rhs = ToU32(1)
          => call.sum = ToU32(0)
    /\ Subtracted =>
          call.difference =
              IF Wraps(call.self, call.rhs)
              THEN <<call.rhs[1] - Limb, call.rhs[2]>>
              ELSE call.rhs

\* 1 has been added to 0xFFFFFFFF and 0xFFFFFFFF subtracted from the sum:
\* the sum is 0 and the difference 1 - 2^32.
C24_Witness ==
    /\ Subtracted
    /\ call.self = <<Limb - 1, Limb - 1>>
    /\ call.rhs = ToU32(1)
    /\ call.sum = ToU32(0)
    /\ call.difference = <<-Limb, 1>>

(***************************************************************************)
(* Properties of Ring.  N is the capacity the ring was made with and m     *)
(* the number of pushes.                                                   *)
(***************************************************************************)
\* The last min(m, N) values pushed, oldest first.
LastPushed ==
    LET m == Len(pushed)
        N == ring.buffer.capacity
        kept == IF m < N THEN m ELSE N
    IN  [i \in 1..kept |-> pushed[m - kept + i]]

RingAsClaimed ==
    /\ iter(ring) = LastPushed
    /\ Len(iter(ring)) <= ring.buffer.capacity
    /\ first(ring) = IF iter(ring) = <<>> THEN None ELSE Some(iter(ring)[1])

\* C25: after m pushes into a Ring of capacity N, iter() yields the last
\* min(m, N) values pushed, oldest first, never more than N of them, and
\* first() is the first value iter() yields, or nothing for an empty ring.
C25_RingKeepsTheLastNAsStated == RingAsClaimed

\* It is so for a Ring of elements that are not zero-sized.
RingOfSizedElements == ~ring.buffer.zero_sized => RingAsClaimed

\* A Ring of zero-sized elements never overwrites: it yields every value
\* pushed.
RingOfZeroSizedElements ==
    ring.buffer.zero_sized => iter(ring) = pushed /\ ring.oldest_ind = None

(***************************************************************************)
(* Properties of the Connection's state and of its fields.                 *)
(***************************************************************************)
\* The steps of the handshake.
Forward ==
    {<<"ConnectionRequest", "ConnectionEstablished">>,
     <<"ConnectionEstablished", "DataTransfer">>}

\* C26: a packet leaves the TcpState as it is or moves it one step along
\* ConnectionRequest -> ConnectionEstablished -> DataTransfer, so that no
\* state is entered again once left; DataTransfer and Closed are never
\* left; and no Connection is ever in ConnectionClosing or Invalid.
C26_StateOnlyMovesForward ==
    [][/\ Receiving
          => \/ connection'.state = connection.state
             \/ <<connection.state, connection'.state>> \in Forward
       /\ Receiving /\ connection.state \in {"DataTransfer", "Closed"}
          => connection'.state = connection.state
       /\ connection'.state \notin {"ConnectionClosing", "Invalid"}]_vars

\* A Connection has gone through the handshake into DataTransfer and has
\* received a packet there.
C26_Witness ==
    /\ connection # Vacant
    /\ connection.state = "DataTransfer"
    /\ connection.first_syn_ack_seq # None
    /\ connection.packet_count >= 4
    /\ packet = NoPacket

\* A pure SYN: SYN set and ACK clear.
PureSyn(p) == p.tcp.flags.syn /\ ~p.tcp.flags.ack

\* The Connection is Closed, or in DataTransfer with the threshold 0.
Unarmed(c) ==
    \/ c.state = "Closed"
    \/ c.state = "DataTransfer" /\ c.skip_hijack_detection_count = 0

\* C28: a Connection built from a first packet that is not a pure SYN
\* starts in DataTransfer with the threshold 0 or in Closed, with no report
\* emitted, and from there every later packet leaves it so and emits no
\* report.
C28_NoReportWithoutSyn ==
    [][/\ (Constructing /\ ~PureSyn(packet))
          => /\ Unarmed(connection')
             /\ Reports(connection') = options'.attack_reporter.reports
       /\ (Receiving /\ Unarmed(connection))
          => /\ Unarmed(connection')
             /\ Reports(connection') = Reports(connection)]_vars

\* A Connection in DataTransfer with the threshold 0 is handed a packet
\* that the detector would report.
C28_Witness ==
    /\ Receiving
    /\ connection.state = "DataTransfer"
    /\ connection.skip_hijack_detection_count = 0
    /\ InjectedSynAck(connection, packet)
    /\ detect_hijack(connection, packet) # None

\* C29: in ConnectionRequest server_next_seq and first_syn_ack_seq are
\* unset and in ConnectionEstablished both are set; first_syn_ack_seq, once
\* set, is not assigned again; and client_next_seq, hijack_next_ack, the
\* threshold and the side identifier are as from_packet left them.
C29_FieldsOfTheHandshake ==
    [][/\ (connection' # Vacant /\ connection'.state = "ConnectionRequest")
          => /\ connection'.server_next_seq = None
             /\ connection'.first_syn_ack_seq = None
       /\ (connection' # Vacant /\ connection'.state = "ConnectionEstablished")
          => /\ connection'.server_next_seq # None
             /\ connection'.first_syn_ack_seq # None
       /\ (Receiving /\ connection.first_syn_ack_seq # None)
          => connection'.first_syn_ack_seq = connection.first_syn_ack_seq
       /\ Receiving
          => /\ connection'.client_next_seq = connection.client_next_seq
             /\ connection'.hijack_next_ack = connection.hijack_next_ack
             /\ connection'.skip_hijack_detection_count
                    = connection.skip_hijack_detection_count
             /\ connection'.side_id = connection.side_id]_vars

\* A Connection in ConnectionEstablished has reported a second SYN/ACK and
\* still records the sequence number of the first.
C29_Witness ==
    /\ connection # Vacant
    /\ connection.state = "ConnectionEstablished"
    /\ Reports(connection) # <<>>
    /\ connection.first_syn_ack_seq # Some(Reports(connection)[1].hijack_seq)
    /\ connection.server_next_seq # None

(***************************************************************************)
(* Properties of the bytes and of the ranges of an OrderedCoalesce.        *)
(***************************************************************************)
\* The store holds byte b for sequence number s under a key that contains s.
HoldsByte(c, s, b) ==
    \E n \in 1..Len(c.collection) :
        /\ Covers(c.collection[n].key, s)
        /\ ByteAt(c.collection[n].value, s) = b

\* C27: the first writer wins: a byte the store holds for a sequence
\* number under a key that contains it is still held for it, under a key
\* that contains it, after every later insert.
C27_FirstWriterWinsAsStated ==
    [][Inserting
          => \A s \in SeqSpace : \A b \in ByteValues :
                 HoldsByte(coalesce, s, b) => HoldsByte(coalesce', s, b)]_vars

\* The ranges overlap_check builds from the i-th stored entry on, until it
\* returns or panics: each overlap range and each remainder range.
RECURSIVE RangesBuiltFrom(_, _, _, _, _)
RangesBuiltFrom(collection, i, range, payload, not_overlapping) ==
    IF i > Len(collection) \/ ~eq(collection[i].key, range) THEN {}
    ELSE
    LET overlapping_range == collection[i].key
        overlapping_package == collection[i].value
        overlap == [from |-> max(overlapping_range.from, range.from),
                    to |-> min(overlapping_range.to, range.to)]
        built == IF construct_overlap_blocks_enabled THEN {overlap} ELSE {}
    IN
    IF \/ /\ construct_overlap_blocks_enabled
          /\ \/ sub_payload(payload, overlap, range.from).panic
             \/ sub_payload(overlapping_package.tcp_payload, overlap,
                            overlapping_package.tcp.seq).panic
       \/ Len(not_overlapping) = 0
    THEN built
    ELSE
    LET popped == not_overlapping[Len(not_overlapping)]
        rest == SubSeq(not_overlapping, 1, Len(not_overlapping) - 1)
        left == [from |-> popped.from, to |-> overlapping_range.from]
        right == [from |-> overlapping_range.to, to |-> popped.to]
        with_left == IF SeqLeq(popped.from, overlapping_range.from)
                     THEN Append(rest, left) ELSE rest
    IN  built
            \cup (IF SeqLeq(popped.from, overlapping_range.from) THEN {left} ELSE {})
            \cup (IF SeqLeq(overlapping_range.to, popped.to)
                  THEN {right} \cup RangesBuiltFrom(collection, i + 1, range, payload,
                                                     Append(with_left, right))
                  ELSE {})

\* Every range insert builds for packet p on store c: the arriving range
\* and those of overlap_check.
RangesBuilt(c, p) ==
    {RangeOf(p)}
        \cup RangesBuiltFrom(c.collection, find_key_index(c.collection, RangeOf(p), 1).idx,
                             RangeOf(p), p.tcp_payload, <<RangeOf(p)>>)

\* C30: every SequenceRange insert builds (the arriving range, each overlap
\* range and each remainder range) has from <= to, for every packet, those
\* whose last sequence number lies past 2^32 - 1 included.
C30_EveryRangeOrderedAsStated ==
    InsertingPayload
        => \A r \in RangesBuilt(coalesce, arriving) : SeqLeq(r.from, r.to)

\* It is so for the packets whose range does not wrap past 2^32.
RangesOrderedWithoutWrap ==
    (InsertingPayload /\ NotWrapping(arriving))
        => \A r \in RangesBuilt(coalesce, arriving) : SeqLeq(r.from, r.to)

\* The remainders overlap_check returns are among the ranges built.
RemaindersAreBuilt ==
    (InsertingPayload /\ ~Checked.panic)
        => \A n \in 1..Len(Checked.not_overlapping) :
               Checked.not_overlapping[n] \in RangesBuilt(coalesce, arriving)
====
